---- MODULE Spec2Model ----
(***************************************************************************)
(* A model of src/app.py (JamesTBot): the SQLite history store             *)
(* (add_to_history, get_chat_history, clear_history), the handlers that    *)
(* use it (handle_message, cars_command, clear_command) running on the     *)
(* bot's worker threads, and main's polling loop.                          *)
(*                                                                         *)
(* Texts are sequences of string tokens, so that concatenation (f-strings, *)
(* +) is sequence concatenation.  Cyrillic literals of the source are      *)
(* written in English.  The handlers of /start, /help, /weather and /nasa  *)
(* never touch the table and are left out, as is /cars without argument.   *)
(***************************************************************************)
EXTENDS Integers, Sequences, FiniteSets, TLC

VARIABLES
    messages,   \* the rows of table messages, in insertion order
    nGen,       \* number of generate_content calls that have returned or raised
    erased,     \* <<user_id, gen>> of the rows a DELETE has removed (history variable)
    worker,     \* per worker thread: the handler invocation it runs and its locals
    loop,       \* where main is: "start", "RUNNING", "RECOVERING", "exited"
    caught,     \* e in main's except clause: "none", "transport", "handler"
    backoff     \* the seconds of main's last time.sleep (0: none yet)

vars == <<messages, nGen, erased, worker, loop, caught, backoff>>

----------------------------------------------------------------------------
(* Bounds of the model *)

\* generate_content calls over a run
MaxGen == 2
\* datetime.now() yields a wall-clock reading in 0..MaxClock
MaxClock == 1

(* Program constants *)

\* get_chat_history(user_id, limit=5)
DefaultLimit == 5
\* time.sleep(15)
BackoffSeconds == 15
\* telebot.TeleBot(token): threaded, with a pool of two worker threads
NumThreads == 2

Users == {1, 2}
Workers == 1..NumThreads
Timestamps == 0..MaxClock
\* message.text of a free-form message
Texts == {<<"hi">>}
\* the argument of /cars
CarQueries == {<<"bmw">>}
\* response.text of a successful generate_content call
ReplyText == <<"r">>
\* str(e) of the exception a failed call raises
ExcText == <<"e">>

----------------------------------------------------------------------------
(* The history store *)

Row(user_id, message, response, ts, g) ==
    [user_id |-> user_id, message |-> message, response |-> response,
     timestamp |-> ts, gen |-> g]

\* INSERT INTO messages VALUES (user_id, message, response, datetime.now())
AddToHistory(msgs, user_id, message, response, ts, g) ==
    Append(msgs, Row(user_id, message, response, ts, g))

\* clear_history without conn.commit(): the DELETE is rolled back
ClearHistoryNoCommit(msgs, user_id) == msgs

\* clear_history without the WHERE clause
ClearHistoryAllUsers(msgs, user_id) == <<>>

\* DELETE FROM messages WHERE user_id = ?
ClearHistory(msgs, user_id) ==
    SelectSeq(msgs, LAMBDA r : r.user_id # user_id)

\* the rows WHERE user_id = ?, in insertion order
RowsOf(msgs, user_id) ==
    SelectSeq(msgs, LAMBDA r : r.user_id = user_id)

Range(s) == {s[i] : i \in 1..Len(s)}

Reverse(s) == [i \in 1..Len(s) |-> s[Len(s) + 1 - i]]

Take(s, n) == SubSeq(s, 1, IF Len(s) < n THEN Len(s) ELSE n)

\* ORDER BY timestamp DESC: every order of the rows S in which the timestamps
\* never increase; SQL leaves the order of rows with equal timestamps open.
RECURSIVE OrderByTimestampDesc(_)
OrderByTimestampDesc(S) ==
    IF S = {} THEN {<<>>}
    ELSE UNION {{<<r>> \o s : s \in OrderByTimestampDesc(S \ {r})} :
                r \in {x \in S : \A y \in S : y.timestamp <= x.timestamp}}

\* SELECT ... WHERE user_id = ? ORDER BY timestamp DESC LIMIT ?, then history[::-1]:
\* the rows get_chat_history can return, oldest timestamp first
SelectRecent(msgs, user_id, limit) ==
    {Reverse(Take(s, limit)) : s \in OrderByTimestampDesc(Range(RowsOf(msgs, user_id)))}

\* SELECT message, response
Exchanges(rows) == [i \in 1..Len(rows) |-> <<rows[i].message, rows[i].response>>]

\* the results get_chat_history(user_id, limit) can return when the storage works
GetChatHistory(msgs, user_id, limit) ==
    {Exchanges(rows) : rows \in SelectRecent(msgs, user_id, limit)}

----------------------------------------------------------------------------
(* The prompt of handle_message *)

\* context = "Previous conversation:\n"; for msg, resp in history: context += ...
RECURSIVE Context(_)
Context(history) ==
    IF history = <<>> THEN <<"Previous conversation:\n">>
    ELSE Context(SubSeq(history, 1, Len(history) - 1))
         \o <<"User: ">> \o history[Len(history)][1]
         \o <<"\nAssistant: ">> \o history[Len(history)][2] \o <<"\n">>

\* a prompt that leaves the context out on the first turn
BuildPromptNoHeader(history, text) ==
    (IF history = <<>> THEN <<>> ELSE Context(history))
        \o <<"\nUser: ">> \o text \o <<"\nAssistant: ">>

\* prompt = f"{context}\nUser: {message.text}\nAssistant: "
BuildPrompt(history, text) ==
    Context(history) \o <<"\nUser: ">> \o text \o <<"\nAssistant: ">>

----------------------------------------------------------------------------
(* Texts the handlers produce *)

\* f"/cars {car_query}"
CarsMessage(q) == <<"/cars ">> \o q
\* response.text + "\n\n... Informaciya predostavlena AI ..."
CarInfo(text) == text \o <<"\n\nInformation provided by AI">>
\* f"Proizoshla oshibka pri poluchenii informacii: {str(e)}"
CarInfoError == <<"Error while getting information: ">> \o ExcText
\* f"Izvinite, proizoshla oshibka: {str(e)}"
MessageErrorReply == <<"Sorry, an error occurred: ">> \o ExcText
\* f"Izvinite, proizoshla oshibka pri obrabotke zaprosa: {str(e)}"
CarsErrorReply == <<"Sorry, an error occurred while processing the request: ">> \o ExcText
\* f"Proizoshla oshibka pri ochistke istorii: {str(e)}"
ClearErrorReply == <<"Error while clearing history: ">> \o ExcText
\* "Istoriya razgovora ochishchena!"
ClearedReply == <<"History cleared!">>
\* intro_message + car_info (the markdown escaping leaves the model's tokens alone)
FullResponse(q, car_info) == <<"CAR ">> \o q \o <<"\n----\n">> \o car_info

----------------------------------------------------------------------------
(* Worker threads *)

IdleWorker ==
    [pc |-> "idle", kind |-> "none", user |-> 0, text |-> <<>>,
     history |-> <<>>, prompt |-> <<>>, response |-> <<>>, gen |-> 0,
     err |-> "none", log |-> "none", sent |-> <<>>]

\* turns that have not made their generate_content call yet
PendingGen == Cardinality({w \in Workers : worker[w].pc \in {"get", "generate", "cars_info"}})

LoopVars == <<loop, caught, backoff>>

\* polling hands an inbound update to a free worker thread, which enters the
\* handler registered for it
Dispatch(w, u, kind, text) ==
    /\ loop = "RUNNING"
    /\ worker[w].pc = "idle"
    /\ \/ kind = "text" /\ text \in Texts /\ nGen + PendingGen < MaxGen
       \/ kind = "cars" /\ text \in CarQueries /\ nGen + PendingGen < MaxGen
       \/ kind = "clear" /\ text = <<>>
    /\ worker' = [worker EXCEPT ![w] =
                    [IdleWorker EXCEPT !.pc = CASE kind = "text" -> "get"
                                              [] kind = "cars" -> "cars_info"
                                              [] OTHER -> "clear",
                                       !.kind = kind, !.user = u, !.text = text]]
    /\ UNCHANGED <<messages, nGen, erased, LoopVars>>

Set(w, r) == worker' = [worker EXCEPT ![w] = r]

\* control enters the handler's except Exception clause with the exception err;
\* the locals of the try block are not read again
Raise(r, err) ==
    [IdleWorker EXCEPT !.pc = "except", !.kind = r.kind, !.user = r.user,
                       !.log = r.log, !.err = err]

\* the handler has sent its last reply
Done(r, sent) ==
    [IdleWorker EXCEPT !.pc = "done", !.kind = r.kind, !.user = r.user,
                       !.log = r.log, !.err = r.err, !.sent = sent]

\* handle_message with a get_chat_history that lets the storage error through
MsgGetRaises(w, ok) ==
    /\ worker[w].pc = "get"
    /\ \/ /\ ok
          /\ \E h \in GetChatHistory(messages, worker[w].user, DefaultLimit) :
                Set(w, [worker[w] EXCEPT !.pc = "generate", !.history = h,
                                         !.prompt = BuildPrompt(h, worker[w].text)])
       \/ /\ ~ok
          /\ Set(w, Raise(worker[w], "storage"))
    /\ UNCHANGED <<messages, nGen, erased, LoopVars>>

\* handle_message: history = get_chat_history(message.from_user.id), then the
\* prompt is built.  A storage error is printed and the window is [].
MsgGet(w, ok) ==
    /\ worker[w].pc = "get"
    /\ \/ /\ ok
          /\ \E h \in GetChatHistory(messages, worker[w].user, DefaultLimit) :
                Set(w, [worker[w] EXCEPT !.pc = "generate", !.history = h,
                                         !.prompt = BuildPrompt(h, worker[w].text)])
       \/ /\ ~ok
          /\ Set(w, [worker[w] EXCEPT !.pc = "generate", !.history = <<>>,
                                      !.log = "get",
                                      !.prompt = BuildPrompt(<<>>, worker[w].text)])
    /\ UNCHANGED <<messages, nGen, erased, LoopVars>>

\* handle_message: response = model.generate_content(prompt).  An error goes to
\* the handler's except clause.  history, context and prompt are not read again.
MsgGenerate(w, ok) ==
    /\ worker[w].pc = "generate"
    /\ nGen' = nGen + 1
    /\ \/ /\ ok
          /\ Set(w, [worker[w] EXCEPT !.pc = "add", !.response = ReplyText,
                                      !.gen = nGen + 1,
                                      !.history = <<>>, !.prompt = <<>>])
       \/ /\ ~ok
          /\ Set(w, Raise(worker[w], "generation"))
    /\ UNCHANGED <<messages, erased, LoopVars>>

\* handle_message: add_to_history(message.from_user.id, message.text, response_text).
\* A storage error is printed and the row is not written.
MsgAdd(w, ok, ts) ==
    /\ worker[w].pc = "add"
    /\ \/ /\ ok
          /\ messages' = AddToHistory(messages, worker[w].user, worker[w].text,
                                      worker[w].response, ts, worker[w].gen)
          /\ Set(w, [worker[w] EXCEPT !.pc = "reply", !.gen = 0])
       \/ /\ ~ok
          /\ messages' = messages
          /\ Set(w, [worker[w] EXCEPT !.pc = "reply", !.gen = 0, !.log = "add"])
    /\ UNCHANGED <<nGen, erased, LoopVars>>

\* handle_message: bot.reply_to(message, response_text)
MsgReply(w, ok) ==
    /\ worker[w].pc = "reply"
    /\ \/ /\ ok
          /\ Set(w, Done(worker[w], worker[w].response))
       \/ /\ ~ok
          /\ Set(w, Raise(worker[w], "send"))
    /\ UNCHANGED <<messages, nGen, erased, LoopVars>>

\* get_car_info_with_gemini: the text of the reply, or the text of the error
GetCarInfoWithGemini(ok) == IF ok THEN CarInfo(ReplyText) ELSE CarInfoError

\* cars_command up to car_info: bot.send_chat_action, get_car_info_with_gemini,
\* search_car_images and the sending of the images (each of which catches its
\* own errors)
CarsInfo(w, typingOk, genOk) ==
    /\ worker[w].pc = "cars_info"
    /\ \/ /\ typingOk
          /\ nGen' = nGen + 1
          /\ Set(w, [worker[w] EXCEPT !.pc = "cars_reply", !.gen = nGen + 1,
                                      !.response = GetCarInfoWithGemini(genOk)])
       \/ /\ ~typingOk
          /\ genOk
          /\ nGen' = nGen
          /\ Set(w, Raise(worker[w], "send"))
    /\ UNCHANGED <<messages, erased, LoopVars>>

\* cars_command: bot.reply_to(message, full_response, parse_mode='MarkdownV2'),
\* and without markdown when that raises; ok: one of the two is sent
CarsReply(w, ok) ==
    /\ worker[w].pc = "cars_reply"
    /\ \/ /\ ok
          /\ Set(w, [worker[w] EXCEPT !.pc = "cars_add",
                        !.sent = FullResponse(worker[w].text, worker[w].response)])
       \/ /\ ~ok
          /\ Set(w, Raise(worker[w], "send"))
    /\ UNCHANGED <<messages, nGen, erased, LoopVars>>

\* cars_command: add_to_history(message.from_user.id, f"/cars {car_query}", car_info)
CarsAdd(w, ok, ts) ==
    /\ worker[w].pc = "cars_add"
    /\ \/ /\ ok
          /\ messages' = AddToHistory(messages, worker[w].user,
                                      CarsMessage(worker[w].text),
                                      worker[w].response, ts, worker[w].gen)
          /\ Set(w, Done(worker[w], worker[w].sent))
       \/ /\ ~ok
          /\ messages' = messages
          /\ Set(w, Done([worker[w] EXCEPT !.log = "add"], worker[w].sent))
    /\ UNCHANGED <<nGen, erased, LoopVars>>

\* clear_command: clear_history(message.from_user.id).  A storage error is
\* printed and nothing is deleted.
ClearStep(w, ok) ==
    /\ worker[w].pc = "clear"
    /\ \/ /\ ok
          /\ messages' = ClearHistory(messages, worker[w].user)
          /\ erased' = erased \cup
                 {<<r.user_id, r.gen>> : r \in Range(RowsOf(messages, worker[w].user))}
          /\ Set(w, [worker[w] EXCEPT !.pc = "clear_reply"])
       \/ /\ ~ok
          /\ messages' = messages
          /\ erased' = erased
          /\ Set(w, [worker[w] EXCEPT !.pc = "clear_reply", !.log = "clear"])
    /\ UNCHANGED <<nGen, LoopVars>>

\* clear_command: bot.reply_to(message, "Istoriya razgovora ochishchena!")
ClearReply(w, ok) ==
    /\ worker[w].pc = "clear_reply"
    /\ \/ /\ ok
          /\ Set(w, Done(worker[w], ClearedReply))
       \/ /\ ~ok
          /\ Set(w, Raise(worker[w], "send"))
    /\ UNCHANGED <<messages, nGen, erased, LoopVars>>

ErrorReply(kind) ==
    CASE kind = "text" -> MessageErrorReply
      [] kind = "cars" -> CarsErrorReply
      [] OTHER -> ClearErrorReply

\* the handlers' except Exception clause: bot.reply_to(message, <error text>),
\* outside any try: an error of this call leaves the handler
Except(w, ok) ==
    /\ worker[w].pc = "except"
    /\ \/ /\ ok
          /\ Set(w, Done(worker[w], ErrorReply(worker[w].kind)))
       \/ /\ ~ok
          /\ Set(w, [worker[w] EXCEPT !.pc = "raised"])
    /\ UNCHANGED <<messages, nGen, erased, LoopVars>>

\* the handler returns; the worker thread is free again
Finish(w) ==
    /\ worker[w].pc = "done"
    /\ Set(w, IdleWorker)
    /\ UNCHANGED <<messages, nGen, erased, LoopVars>>

----------------------------------------------------------------------------
(* main *)

\* except Exception as e: print(...); time.sleep(15)
MainExcept(cause) ==
    /\ loop' = "RECOVERING"
    /\ caught' = cause
    /\ backoff' = BackoffSeconds

\* init_db() (its errors are printed), then set_menu_commands() (outside any
\* try: an error ends main before the loop)
Startup(ok) ==
    /\ loop = "start"
    /\ loop' = IF ok THEN "RUNNING" ELSE "exited"
    /\ UNCHANGED <<messages, nGen, erased, worker, caught, backoff>>

\* bot.polling(none_stop=True) raises a transport error
PollingRaises ==
    /\ loop = "RUNNING"
    /\ MainExcept("transport")
    /\ UNCHANGED <<messages, nGen, erased, worker>>

\* an exception that left a handler: the library logs and drops it
RaisedDropped(w) ==
    /\ worker[w].pc = "raised"
    /\ Set(w, IdleWorker)
    /\ UNCHANGED <<messages, nGen, erased, LoopVars>>

\* an exception that left a handler: bot.polling re-raises it into main
RaisedToPolling(w) ==
    /\ worker[w].pc = "raised"
    /\ loop = "RUNNING"
    /\ Set(w, IdleWorker)
    /\ MainExcept("handler")
    /\ UNCHANGED <<messages, nGen, erased>>

\* an except clause that gives up: the loop is left
RecoverExits ==
    /\ loop = "RECOVERING"
    /\ loop' = "exited"
    /\ caught' = "none"
    /\ UNCHANGED <<messages, nGen, erased, worker, backoff>>

\* a restart that sets the database up anew, dropping the table
RecoverDropsTable ==
    /\ loop = "RECOVERING"
    /\ loop' = "RUNNING"
    /\ caught' = "none"
    /\ messages' = <<>>
    /\ UNCHANGED <<nGen, erased, worker, backoff>>

\* time.sleep(15) returns; while True: bot.polling(none_stop=True) again
Recover ==
    /\ loop = "RECOVERING"
    /\ loop' = "RUNNING"
    /\ caught' = "none"
    /\ UNCHANGED <<messages, nGen, erased, worker, backoff>>

----------------------------------------------------------------------------

Init ==
    /\ messages = <<>>
    /\ nGen = 0
    /\ erased = {}
    /\ worker = [w \in Workers |-> IdleWorker]
    /\ loop = "start"
    /\ caught = "none"
    /\ backoff = 0

\* the steps of main
MainStep ==
    \/ \E ok \in BOOLEAN : Startup(ok)
    \/ PollingRaises
    \/ Recover

\* the steps of the handler a worker thread runs
HandlerStep(w) ==
    \/ \E ok \in BOOLEAN : MsgGet(w, ok)
    \/ \E ok \in BOOLEAN : MsgGenerate(w, ok)
    \/ \E ok \in BOOLEAN, ts \in Timestamps : MsgAdd(w, ok, ts)
    \/ \E ok \in BOOLEAN : MsgReply(w, ok)
    \/ \E typingOk \in BOOLEAN, genOk \in BOOLEAN : CarsInfo(w, typingOk, genOk)
    \/ \E ok \in BOOLEAN : CarsReply(w, ok)
    \/ \E ok \in BOOLEAN, ts \in Timestamps : CarsAdd(w, ok, ts)
    \/ \E ok \in BOOLEAN : ClearStep(w, ok)
    \/ \E ok \in BOOLEAN : ClearReply(w, ok)
    \/ \E ok \in BOOLEAN : Except(w, ok)
    \/ Finish(w)
    \/ RaisedDropped(w)
    \/ RaisedToPolling(w)

Updates == {<<"text", t>> : t \in Texts} \cup {<<"cars", q>> : q \in CarQueries}
               \cup {<<"clear", <<>> >>}

\* the bot as it runs: updates are handled on the worker threads concurrently
Next ==
    \/ MainStep
    \/ \E w \in Workers, u \in Users, upd \in Updates : Dispatch(w, u, upd[1], upd[2])
    \/ \E w \in Workers : HandlerStep(w)

Spec == Init /\ [][Next]_vars

\* an update arriving while no handler is in flight; the worker threads are
\* interchangeable, the first takes it
DispatchSerial(u, kind, text) ==
    /\ \A v \in Workers : worker[v].pc = "idle"
    /\ Dispatch(1, u, kind, text)

\* the bot when updates arrive one at a time: one handler in flight
SerialNext ==
    \/ MainStep
    \/ \E u \in Users, upd \in Updates : DispatchSerial(u, upd[1], upd[2])
    \/ \E w \in Workers : HandlerStep(w)

SerialSpec == Init /\ [][SerialNext]_vars

\* time.sleep(15) returns and the while loop starts polling again
FairSpec == SerialSpec /\ WF_vars(Recover)

----------------------------------------------------------------------------
(* Properties *)

Min(a, b) == IF a < b THEN a ELSE b

\* the last min(Len(s), n) elements of s
LastN(s, n) == SubSeq(s, Len(s) - Min(Len(s), n) + 1, Len(s))

\* the exchanges stored for u, in the order they were appended
Stored(u) == Exchanges(RowsOf(messages, u))

\* datetime.now() gave every row a later reading than the rows before it
ClockFollowsInsertion ==
    \A i, j \in 1..Len(messages) :
        i < j => messages[i].timestamp < messages[j].timestamp

\* no two rows carry the same datetime.now() reading
ClockReadingsDistinct ==
    \A i, j \in 1..Len(messages) :
        i # j => messages[i].timestamp # messages[j].timestamp

\* get_chat_history(u, N) returns exactly the last min(k, N) of u's k stored
\* exchanges, oldest first, for every limit N up to the default
WindowIsLastAppended ==
    \A u \in Users, n \in 1..DefaultLimit :
        GetChatHistory(messages, u, n) = {LastN(Stored(u), n)}

\* C1: with the storage working, get_chat_history(u, N) returns exactly the
\* last min(k, N) of u's k stored exchanges, oldest first, in the order they
\* were appended; stated here for appends whose clock readings all differ.
C1_WindowIsLastAppended ==
    ClockReadingsDistinct => WindowIsLastAppended

\* the same where the wall clock gave every append a later reading than the
\* appends before it: the case in which the window is the last appended
WindowIsLastAppendedIfClockIncreases ==
    ClockFollowsInsertion => WindowIsLastAppended

\* the step worker w takes is its call of clear_history, which returns
ClearCompletes(w) ==
    worker[w].pc = "clear" /\ worker'[w].pc = "clear_reply"

GenFailed(w) ==
    \/ worker[w].pc = "except" /\ worker[w].err = "generation"
    \/ worker[w].pc \in {"cars_reply", "cars_add"} /\ worker[w].response = CarInfoError

\* the text carries one of the handlers' error strings
ContainsError(text) ==
    \E i \in 1..Len(text) :
        text[i] \in {CarInfoError[1], MessageErrorReply[1], CarsErrorReply[1]}

\* C3: a turn whose generate_content call raised (a free-form message or a
\* /cars command) replies with an error string and leaves the stored history
\* of every user as it was.
C3_FailedGenerationNotStored ==
    [][\A w \in Workers :
          (GenFailed(w) /\ worker'[w] # worker[w]) =>
              /\ messages' = messages
              /\ worker'[w].pc = "done" => ContainsError(worker'[w].sent)]_vars

\* C4: from RECOVERING the loop always returns to RUNNING, it sleeps the fixed
\* 15 seconds there, and once in the loop main never leaves it.
C4_LoopAlwaysResumes ==
    /\ (loop = "RECOVERING") ~> (loop = "RUNNING")
    /\ [](loop = "RECOVERING" => backoff = BackoffSeconds)
    /\ [][(loop \in {"RUNNING", "RECOVERING"})
              => (loop' \in {"RUNNING", "RECOVERING"})]_vars

\* C4's case: polling again after a fault and its backoff
C4_Witness == loop = "RUNNING" /\ backoff = BackoffSeconds

\* C5: no exception of a handler leaves the handler and reaches the polling
\* loop; main's except clause only ever sees transport faults.
C5_HandlerFaultsStayInHandler ==
    /\ \A w \in Workers : worker[w].pc # "raised"
    /\ caught # "handler"

\* C6: the steps of main (the fault, the backoff, the restart of polling)
\* leave the table as it is, and with it every user's window.
C6_RecoveryKeepsHistory ==
    [][(loop' # loop) =>
          /\ messages' = messages
          /\ \A u \in Users :
                GetChatHistory(messages', u, DefaultLimit)
                    = GetChatHistory(messages, u, DefaultLimit)]_vars

\* C6's case: polling again after a fault, with exchanges stored
C6_Witness == loop = "RUNNING" /\ backoff = BackoffSeconds /\ messages # <<>>

\* C7: a storage error in get_chat_history gives the empty window and the
\* prompt of the new message alone; one in add_to_history leaves the table
\* unchanged; neither reaches the handler's except clause, and the reply the
\* handler sends is the AI reply.
C7_StorageFaultsNotFatal ==
    [][\A w \in Workers :
          /\ worker'[w].err \in {"none", "generation", "send"}
          /\ (worker'[w].pc = "generate" /\ worker'[w].log = "get") =>
                 /\ worker'[w].history = <<>>
                 /\ worker'[w].prompt = BuildPrompt(<<>>, worker'[w].text)
          /\ (worker[w].pc = "add" /\ worker'[w].log = "add") =>
                 messages' = messages /\ worker'[w].pc = "reply"
          /\ worker'[w].pc = "reply" => worker'[w].response = ReplyText
          /\ (worker'[w].pc = "done" /\ worker'[w].kind = "text"
                 /\ worker'[w].err = "none") => worker'[w].sent = ReplyText]_vars

\* C7's case: a free-form turn that met a storage error has sent the AI reply
C7_Witness ==
    \E w \in Workers :
        /\ worker[w].pc = "done" /\ worker[w].kind = "text"
        /\ worker[w].log # "none" /\ worker[w].sent = ReplyText

\* the user whose update worker w handles in this step
ActingUser(w) ==
    IF worker[w].pc = "idle" THEN worker'[w].user ELSE worker[w].user

\* C8: a step of a handler run for user u leaves the rows, and so the window,
\* of every other user unchanged.
C8_HistoryIsolated ==
    [][\A w \in Workers :
          worker'[w] # worker[w] =>
              \A v \in Users \ {ActingUser(w)} :
                  /\ RowsOf(messages', v) = RowsOf(messages, v)
                  /\ GetChatHistory(messages', v, DefaultLimit)
                         = GetChatHistory(messages, v, DefaultLimit)]_vars

\* C8's case: u's history was cleared while another user has exchanges stored
C8_Witness ==
    \E w \in Workers :
        /\ worker[w].pc = "clear_reply" /\ worker[w].log = "none"
        /\ \E r \in erased : r[1] = worker[w].user
        /\ \E v \in Users \ {worker[w].user} : RowsOf(messages, v) # <<>>

\* User: msg / Assistant: resp, for each exchange of the window
RECURSIVE Turns(_)
Turns(history) ==
    IF history = <<>> THEN <<>>
    ELSE Turns(SubSeq(history, 1, Len(history) - 1))
         \o <<"User: ">> \o history[Len(history)][1]
         \o <<"\nAssistant: ">> \o history[Len(history)][2] \o <<"\n">>

\* the prompt without the turns of its window
WithoutTurns(prompt, history) ==
    SubSeq(prompt, 1, 1) \o SubSeq(prompt, 2 + Len(Turns(history)), Len(prompt))

\* C9 as stated: with an empty window the prompt holds the new message and
\* the open assistant marker and nothing else.
C9_EmptyWindowPromptOnlyMessage ==
    \A w \in Workers :
        (worker[w].pc = "generate" /\ worker[w].history = <<>>) =>
            \A i \in 1..Len(worker[w].prompt) :
                worker[w].prompt[i] \in
                    {"User: ", "\nUser: ", "\nAssistant: "} \cup Range(worker[w].text)

\* C9 amended: with an empty window the prompt is the "Previous conversation:"
\* header, the new message and the open assistant marker, and it is the prompt
\* of any later turn with the turns of its window removed.
C9_EmptyWindowPromptHeaderAndMessage ==
    \A w \in Workers :
        worker[w].pc = "generate" =>
            /\ worker[w].history = <<>> =>
                   worker[w].prompt = <<"Previous conversation:\n", "\nUser: ">>
                                          \o worker[w].text \o <<"\nAssistant: ">>
            /\ WithoutTurns(worker[w].prompt, worker[w].history)
                   = <<"Previous conversation:\n", "\nUser: ">>
                         \o worker[w].text \o <<"\nAssistant: ">>
            /\ worker[w].prompt[Len(worker[w].prompt)] = "\nAssistant: "

\* C9's case: the first prompt after a clear, with the storage working
C9_Witness ==
    \E w \in Workers :
        /\ worker[w].pc = "generate" /\ worker[w].history = <<>>
        /\ worker[w].log = "none"
        /\ \E r \in erased : r[1] = worker[w].user

\* C10: the free-form exchanges of a user appear in the window in the order
\* in which their generate_content calls returned (gen), here with a wall
\* clock that gave later appends later readings.
C10_WindowInCompletionOrder ==
    ClockFollowsInsertion =>
        \A u \in Users : \A rows \in SelectRecent(messages, u, DefaultLimit) :
            \A i, j \in 1..Len(rows) :
                (i < j /\ rows[i].message \in Texts /\ rows[j].message \in Texts)
                    => rows[i].gen < rows[j].gen

====
